---- MODULE Spec2Model ----
(***************************************************************************)
(* Quality Value Stock Screener (src/stock_screener.py).                   *)
(*                                                                         *)
(* The model covers the core of the program: StockDataFetcher's derived    *)
(* metrics (interest coverage, ROIC, free cash flow, intrinsic value), the *)
(* six StockScorer scorers with calculate_overall_score, passes_filters,   *)
(* and the run_screening loop that stores its ranked list in               *)
(* st.session_state.results.                                               *)
(*                                                                         *)
(* Numbers.  A Python float is modelled as a fixed-point integer counting  *)
(* hundredths (Scale = 100): 1.5 is 150, a 15 % growth 0.15 is 15, a P/E   *)
(* of 25 is 2500.  Products and quotients round down to a hundredth.       *)
(* Every threshold of the program is a whole number of hundredths, so a    *)
(* comparison  x >= t  or  x < t  of a rounded-down quotient with a        *)
(* threshold has the same outcome as the comparison of the exact quotient. *)
(* Python's None is the value None below; an operation the interpreter     *)
(* refuses (an ordering comparison or arithmetic with None, a missing      *)
(* dictionary key) is modelled by its exception.                           *)
(***************************************************************************)
EXTENDS Integers, Sequences, FiniteSets, TLC

VARIABLES
    pc,               \* position of the modelled computation
    call,             \* the inputs of the function under study (pure-function specifications)
    out,              \* its result; in a session, what get_stock_data returned last
    criteria,         \* the criteria dict handed to run_screening
    nsymbols,         \* len(symbols) of the running screening
    idx,              \* loop index of run_screening (1-based position in symbols)
    results,          \* the local list 'results' of run_screening
    session_results,  \* st.session_state.results
    history,          \* per loop iteration of the last run started, how it ended
    raised            \* the exception that ended the current run, or "none"

vars == <<pc, call, out, criteria, nsymbols, idx, results, session_results, history, raised>>

----------------------------------------------------------------------------
(* Fixed-point arithmetic standing for Python floats.                      *)

Scale == 100

\* Python's None (info.get(key, default) returns it when the key is present without a value).
None == -999999

IsNone(x) == x = None

Mul(a, b) == (a * b) \div Scale

Div(a, b) == (a * Scale) \div b

RECURSIVE Pow(_, _)
Pow(b, n) == IF n = 0 THEN Scale ELSE Mul(Pow(b, n - 1), b)

Min2(a, b) == IF b < a THEN b ELSE a

Max2(a, b) == IF b > a THEN b ELSE a

Abs(a) == IF a < 0 THEN -a ELSE a

RECURSIVE SumSeq(_)
SumSeq(s) == IF s = <<>> THEN 0 ELSE Head(s) + SumSeq(Tail(s))

\* A financial statement (pandas DataFrame or None): 'none' when the provider
\* gave None, otherwise 'rows' maps the index labels present to the value of the
\* most recent column; a DataFrame without rows is empty.
Statement(rowmap) == [none |-> FALSE, rows |-> rowmap]

NoStatement == [none |-> TRUE, rows |-> <<>>]

EmptyStatement == Statement(<<>>)

Unavailable(stmt) == stmt.none \/ DOMAIN stmt.rows = {}

\* stmt.loc[label].iloc[0] if label in stmt.index else default
Row(stmt, label, default) == IF label \in DOMAIN stmt.rows THEN stmt.rows[label] ELSE default

----------------------------------------------------------------------------
(* StockDataFetcher: derived metrics.                                      *)

_calculate_interest_coverage(income_stmt) ==
    IF Unavailable(income_stmt) THEN 0
    ELSE LET ebit     == Row(income_stmt, "EBIT", 0)
             interest == Row(income_stmt, "Interest Expense", Scale)
         IN  IF interest # 0 THEN Abs(Div(ebit, interest)) ELSE 0

_calculate_roic(data, balance_sheet, income_stmt) ==
    IF Unavailable(income_stmt) \/ Unavailable(balance_sheet)
    THEN Mul(data.roe, 80)
    ELSE LET nopat            == Row(income_stmt, "Net Income", 0)
             total_assets     == Row(balance_sheet, "Total Assets", Scale)
             current_liab     == Row(balance_sheet, "Current Liabilities", 0)
             invested_capital == total_assets - current_liab
         IN  IF invested_capital > 0 THEN Div(nopat, invested_capital) * 100 ELSE 0

_get_free_cash_flow(cash_flow) ==
    IF Unavailable(cash_flow) THEN 0 ELSE Row(cash_flow, "Free Cash Flow", 0)

\* growth_rate = min(data['earnings_growth'] / 100, 0.15)
GrowthRate(data) == Min2(data.earnings_growth \div 100, 15)

\* An earnings-multiple fallback that ends in the floor of line 276.
EarningsFallbackFloored(data) ==
    IF IsNone(data.pe_ratio) THEN data.price
    ELSE IF IsNone(data.price) THEN data.price
    ELSE LET eps == IF data.pe_ratio > 0 THEN Div(data.price, data.pe_ratio) ELSE 0
         IN  Max2(Mul(Mul(eps, Scale + GrowthRate(data)), 15 * Scale), Mul(data.price, 50))

\* The earnings-multiple fallback of lines 251-254, taken when fcf <= 0.  It
\* returns without passing through the floor of line 276.
EarningsFallback(data) ==
    IF IsNone(data.pe_ratio) THEN data.price                 \* None > 0: TypeError, line 279
    ELSE IF data.pe_ratio > 0 /\ IsNone(data.price) THEN data.price   \* None / x: TypeError
    ELSE LET eps == IF data.pe_ratio > 0 THEN Div(data.price, data.pe_ratio) ELSE 0
         IN  Mul(Mul(eps, Scale + GrowthRate(data)), 15 * Scale)

\* The five-year discounted cash flow of lines 256-272.
EnterpriseValue(fcf, growth_rate) ==
    LET discount_rate    == 10
        terminal_growth  == 3
        projection_years == 5
        pv(year) == Div(Mul(fcf, Pow(Scale + growth_rate, year)), Pow(Scale + discount_rate, year))
        pv_fcf == SumSeq([year \in 1..projection_years |-> pv(year)])
        terminal_fcf   == Mul(Mul(fcf, Pow(Scale + growth_rate, projection_years)),
                              Scale + terminal_growth)
        terminal_value == Div(terminal_fcf, discount_rate - terminal_growth)
        pv_terminal    == Div(terminal_value, Pow(Scale + discount_rate, projection_years))
    IN  pv_fcf + pv_terminal

\* A per-share value without the guard against zero shares outstanding: the
\* division by zero raises, and the handler of line 278 never sees it because
\* the quotient is taken as 0.
DcfValueUnguarded(data, fcf) ==
    IF IsNone(data.price) THEN data.price
    ELSE IF data.price > 0 /\ IsNone(data.market_cap) THEN data.price
    ELSE LET enterprise_value   == EnterpriseValue(fcf, GrowthRate(data))
             shares_outstanding == IF data.price > 0 THEN Div(data.market_cap, data.price)
                                   ELSE Scale
             intrinsic_value    == IF shares_outstanding # 0
                                   THEN Div(enterprise_value, shares_outstanding)
                                   ELSE 0
         IN  Max2(intrinsic_value, Mul(data.price, 50))

\* Lines 273-276: per-share value, floored at half the price.
DcfValue(data, fcf) ==
    IF IsNone(data.price) THEN data.price                    \* None > 0: TypeError, line 279
    ELSE IF data.price > 0 /\ IsNone(data.market_cap) THEN data.price  \* None / x: TypeError
    ELSE LET enterprise_value   == EnterpriseValue(fcf, GrowthRate(data))
             shares_outstanding == IF data.price > 0 THEN Div(data.market_cap, data.price)
                                   ELSE Scale
             intrinsic_value    == IF shares_outstanding > 0
                                   THEN Div(enterprise_value, shares_outstanding)
                                   ELSE data.price
         IN  Max2(intrinsic_value, Mul(data.price, 50))

_calculate_intrinsic_value(data, cash_flow) ==
    LET fcf == _get_free_cash_flow(cash_flow)
    IN  IF fcf <= 0 THEN EarningsFallback(data) ELSE DcfValue(data, fcf)

----------------------------------------------------------------------------
(* get_stock_data.  What the provider gives for a symbol: 'error' when a   *)
(* yfinance call raises, otherwise the info dict (a function from the keys *)
(* present to their values, None for a key without a value), the dict      *)
(* info['esgScores'] as a statement-like value, and the three statements.  *)

\* info.get(key, default)
Get(info, key, default) == IF key \in DOMAIN info THEN info[key] ELSE default

\* info.get(key, 0) * 100 if info.get(key) else 0
Percent(info, key) ==
    LET v == Get(info, key, None)
    IN  IF IsNone(v) \/ v = 0 THEN 0 ELSE v * 100

\* info.get('esgScores', {}).get(key, 50) if info.get('esgScores') else 50
EsgField(esg, key) == IF Unavailable(esg) THEN 5000 ELSE Row(esg, key, 5000)

\* lines 143-194: the fields the core reads
ExtractMetrics(resp) ==
    LET info == resp.info
    IN  [price |-> Get(info, "currentPrice", Get(info, "regularMarketPrice", 0)),
         market_cap |-> Get(info, "marketCap", 0),
         pe_ratio |-> Get(info, "trailingPE", Get(info, "forwardPE", 0)),
         pb_ratio |-> Get(info, "priceToBook", 0),
         ps_ratio |-> Get(info, "priceToSalesTrailing12Months", 0),
         peg_ratio |-> Get(info, "pegRatio", 0),
         roe |-> Percent(info, "returnOnEquity"),
         profit_margin |-> Percent(info, "profitMargins"),
         operating_margin |-> Percent(info, "operatingMargins"),
         current_ratio |-> Get(info, "currentRatio", 0),
         quick_ratio |-> Get(info, "quickRatio", 0),
         debt_to_equity |-> Get(info, "debtToEquity", 0),
         interest_coverage |-> _calculate_interest_coverage(resp.income_stmt),
         revenue_growth |-> Percent(info, "revenueGrowth"),
         earnings_growth |-> Percent(info, "earningsGrowth"),
         earnings_quarterly_growth |-> Percent(info, "earningsQuarterlyGrowth"),
         dividend_yield |-> Percent(info, "dividendYield"),
         five_year_avg_dividend_yield |-> Get(info, "fiveYearAvgDividendYield", 0),
         insider_ownership |-> Percent(info, "heldPercentInsiders"),
         institutional_ownership |-> Percent(info, "heldPercentInstitutions"),
         esg_score |-> EsgField(resp.esg, "totalEsg"),
         governance_score |-> EsgField(resp.esg, "governanceScore")]

\* lines 196-199: data['roic'], data['free_cash_flow'], data['intrinsic_value']
WithDerived(data, resp) ==
    [k \in DOMAIN data \cup {"roic", "free_cash_flow", "intrinsic_value"} |->
        IF k = "roic" THEN _calculate_roic(data, resp.balance_sheet, resp.income_stmt)
        ELSE IF k = "free_cash_flow" THEN _get_free_cash_flow(resp.cash_flow)
        ELSE IF k = "intrinsic_value" THEN _calculate_intrinsic_value(data, resp.cash_flow)
        ELSE data[k]]

\* The record, or None when the provider raised (lines 205-207).  The hourly
\* cache of lines 130-132 and 202 only repeats a record the provider gave.
NoRecord == [none |-> TRUE, data |-> <<>>]

get_stock_data(resp) ==
    IF resp.error THEN NoRecord
    ELSE [none |-> FALSE, data |-> WithDerived(ExtractMetrics(resp), resp)]

----------------------------------------------------------------------------
(* StockScorer.  Points are the integers of the code; a category score is  *)
(* a fixed-point number (100 points are 100 * Scale).  Each bucket gives   *)
(* its points and the entry it writes into the details dict; a sub-metric  *)
(* that writes no entry has the detail NoTag.                              *)

Pts(n) == n * Scale

Tag(text) == [text |-> text, pct |-> 0]

NoTag == Tag("")

Bucket(points, text) == [points |-> points, detail |-> Tag(text)]

\* lines 304-317
PeBucket(pe) ==
    IF 0 < pe /\ pe <= 1500 THEN Bucket(20, "Excellent")
    ELSE IF 1500 < pe /\ pe <= 2000 THEN Bucket(15, "Good")
    ELSE IF 2000 < pe /\ pe <= 2500 THEN Bucket(10, "Fair")
    ELSE IF pe > 2500 THEN Bucket(5, "High")
    ELSE [points |-> 0, detail |-> NoTag]

\* lines 319-332
PbBucket(pb) ==
    IF 0 < pb /\ pb <= 150 THEN Bucket(15, "Excellent")
    ELSE IF 150 < pb /\ pb <= 300 THEN Bucket(12, "Good")
    ELSE IF 300 < pb /\ pb <= 500 THEN Bucket(8, "Fair")
    ELSE Bucket(4, "High")

\* lines 334-347
PsBucket(ps) ==
    IF 0 < ps /\ ps <= 100 THEN Bucket(15, "Excellent")
    ELSE IF 100 < ps /\ ps <= 200 THEN Bucket(12, "Good")
    ELSE IF 200 < ps /\ ps <= 300 THEN Bucket(8, "Fair")
    ELSE Bucket(4, "High")

\* line 353: discount = (intrinsic - price) / intrinsic
Discount(price, intrinsic) == Div(intrinsic - price, intrinsic)

\* A discount scale whose limits 30 % and 15 % belong to the bucket below.
DiscountBucketStrict(discount) ==
    IF discount > 30
    THEN [points |-> 30, detail |-> [text |-> "Undervalued by", pct |-> discount]]
    ELSE IF discount > 15
    THEN [points |-> 20, detail |-> [text |-> "Undervalued by", pct |-> discount]]
    ELSE IF discount >= 0 THEN Bucket(10, "Fair value")
    ELSE [points |-> 5, detail |-> [text |-> "Overvalued by", pct |-> Abs(discount)]]

\* lines 354-365, for a discount already computed
DiscountBucket(discount) ==
    IF discount >= 30
    THEN [points |-> 30, detail |-> [text |-> "Undervalued by", pct |-> discount]]
    ELSE IF discount >= 15
    THEN [points |-> 20, detail |-> [text |-> "Undervalued by", pct |-> discount]]
    ELSE IF discount >= 0 THEN Bucket(10, "Fair value")
    ELSE [points |-> 5, detail |-> [text |-> "Overvalued by", pct |-> Abs(discount)]]

\* lines 349-365
ValuationBucket(price, intrinsic) ==
    IF price > 0 /\ intrinsic > 0 THEN DiscountBucket(Discount(price, intrinsic))
    ELSE [points |-> 0, detail |-> NoTag]

\* A PEG scale whose best bucket is worth 25 points, not 20.
PegBucketGenerous(peg) ==
    IF 0 < peg /\ peg <= 100 THEN Bucket(25, "Excellent growth value")
    ELSE IF 100 < peg /\ peg <= 150 THEN Bucket(15, "Good growth value")
    ELSE IF 150 < peg /\ peg <= 200 THEN Bucket(10, "Fair growth value")
    ELSE Bucket(5, "Expensive growth")

\* lines 367-380
PegBucket(peg) ==
    IF 0 < peg /\ peg <= 100 THEN Bucket(20, "Excellent growth value")
    ELSE IF 100 < peg /\ peg <= 150 THEN Bucket(15, "Good growth value")
    ELSE IF 150 < peg /\ peg <= 200 THEN Bucket(10, "Fair growth value")
    ELSE Bucket(5, "Expensive growth")

\* lines 390-403
CurrentRatioBucket(current_ratio) ==
    IF current_ratio >= 200 THEN Bucket(25, "Excellent")
    ELSE IF current_ratio >= 150 THEN Bucket(20, "Good")
    ELSE IF current_ratio >= 100 THEN Bucket(15, "Adequate")
    ELSE Bucket(5, "Weak")

\* A quick-ratio scale with the points of its two middle buckets exchanged.
QuickRatioBucketExchanged(quick_ratio) ==
    IF quick_ratio >= 150 THEN Bucket(20, "Strong")
    ELSE IF quick_ratio >= 100 THEN Bucket(10, "Good")
    ELSE IF quick_ratio >= 50 THEN Bucket(15, "Fair")
    ELSE Bucket(5, "Weak")

\* lines 405-418
QuickRatioBucket(quick_ratio) ==
    IF quick_ratio >= 150 THEN Bucket(20, "Strong")
    ELSE IF quick_ratio >= 100 THEN Bucket(15, "Good")
    ELSE IF quick_ratio >= 50 THEN Bucket(10, "Fair")
    ELSE Bucket(5, "Weak")

\* A debt/equity scale whose limits belong to the bucket above.
DebtEquityBucketStrict(de) ==
    IF de < 50 THEN Bucket(30, "Conservative")
    ELSE IF de < 100 THEN Bucket(25, "Moderate")
    ELSE IF de < 200 THEN Bucket(15, "Elevated")
    ELSE Bucket(5, "High risk")

\* lines 420-433
DebtEquityBucket(de) ==
    IF de <= 50 THEN Bucket(30, "Conservative")
    ELSE IF de <= 100 THEN Bucket(25, "Moderate")
    ELSE IF de <= 200 THEN Bucket(15, "Elevated")
    ELSE Bucket(5, "High risk")

\* lines 435-448
CoverageBucket(coverage) ==
    IF coverage >= 1000 THEN Bucket(25, "Excellent")
    ELSE IF coverage >= 500 THEN Bucket(20, "Good")
    ELSE IF coverage >= 200 THEN Bucket(10, "Adequate")
    ELSE Bucket(5, "Weak")

\* lines 458-471
RoeBucket(roe) ==
    IF roe >= 2000 THEN Bucket(25, "Excellent")
    ELSE IF roe >= 1500 THEN Bucket(20, "Good")
    ELSE IF roe >= 1000 THEN Bucket(15, "Fair")
    ELSE Bucket(5, "Weak")

\* lines 473-486
RoicBucket(roic) ==
    IF roic >= 1500 THEN Bucket(25, "Excellent")
    ELSE IF roic >= 1200 THEN Bucket(20, "Good")
    ELSE IF roic >= 800 THEN Bucket(15, "Fair")
    ELSE Bucket(5, "Weak")

\* lines 488-501
OpMarginBucket(op_margin) ==
    IF op_margin >= 2000 THEN Bucket(25, "Excellent")
    ELSE IF op_margin >= 1500 THEN Bucket(20, "Good")
    ELSE IF op_margin >= 1000 THEN Bucket(15, "Fair")
    ELSE Bucket(5, "Weak")

\* lines 503-516
NetMarginBucket(net_margin) ==
    IF net_margin >= 1500 THEN Bucket(25, "Excellent")
    ELSE IF net_margin >= 1000 THEN Bucket(20, "Good")
    ELSE IF net_margin >= 500 THEN Bucket(15, "Fair")
    ELSE Bucket(5, "Weak")

\* lines 526-542
EarningsGrowthBucket(earnings_growth) ==
    IF earnings_growth >= 1500 THEN Bucket(40, "Excellent")
    ELSE IF earnings_growth >= 1000 THEN Bucket(30, "Good")
    ELSE IF earnings_growth >= 500 THEN Bucket(20, "Moderate")
    ELSE IF earnings_growth >= 0 THEN Bucket(10, "Slow")
    ELSE Bucket(5, "Declining")

\* lines 544-560
RevenueGrowthBucket(revenue_growth) ==
    IF revenue_growth >= 1500 THEN Bucket(40, "Excellent")
    ELSE IF revenue_growth >= 1000 THEN Bucket(30, "Good")
    ELSE IF revenue_growth >= 500 THEN Bucket(20, "Moderate")
    ELSE IF revenue_growth >= 0 THEN Bucket(10, "Slow")
    ELSE Bucket(5, "Declining")

\* lines 562-575
QuarterlyBucket(q_growth) ==
    IF q_growth >= 1500 THEN Bucket(20, "Strong")
    ELSE IF q_growth >= 500 THEN Bucket(15, "Positive")
    ELSE IF q_growth >= 0 THEN Bucket(10, "Stable")
    ELSE Bucket(5, "Weak")

\* lines 585-598
InsiderBucket(insider) ==
    IF insider >= 1000 THEN Bucket(40, "Excellent")
    ELSE IF insider >= 500 THEN Bucket(30, "Good")
    ELSE IF insider >= 200 THEN Bucket(20, "Moderate")
    ELSE Bucket(10, "Low")

\* lines 600-610
InstitutionalBucket(institutional) ==
    IF 4000 <= institutional /\ institutional <= 8000 THEN Bucket(30, "Optimal range")
    ELSE IF 2000 <= institutional /\ institutional <= 9000 THEN Bucket(20, "Good")
    ELSE Bucket(10, "Suboptimal")

\* lines 612-622
EfficiencyBucket(roe) ==
    IF roe >= 2000 THEN Bucket(30, "Excellent")
    ELSE IF roe >= 1500 THEN Bucket(20, "Good")
    ELSE Bucket(10, "Fair")

\* lines 632-645
EsgBucket(esg) ==
    IF esg >= 7000 THEN Bucket(50, "Leader")
    ELSE IF esg >= 5000 THEN Bucket(35, "Average")
    ELSE IF esg >= 3000 THEN Bucket(20, "Below average")
    ELSE Bucket(10, "Laggard")

\* A governance scale without its middle bucket.
GovernanceBucketCoarse(gov) ==
    IF gov >= 7000 THEN Bucket(30, "Strong")
    ELSE Bucket(10, "Weak")

\* lines 647-657
GovernanceBucket(gov) ==
    IF gov >= 7000 THEN Bucket(30, "Strong")
    ELSE IF gov >= 5000 THEN Bucket(20, "Adequate")
    ELSE Bucket(10, "Weak")

\* The sub-metrics of each scorer, in the order the code evaluates them: the
\* key each writes in the details dict, and its bucket for the record.
ValuationParts(data) ==
    << [key |-> "pe",        b |-> PeBucket(data.pe_ratio)],
       [key |-> "pb",        b |-> PbBucket(data.pb_ratio)],
       [key |-> "ps",        b |-> PsBucket(data.ps_ratio)],
       [key |-> "valuation", b |-> ValuationBucket(data.price, data.intrinsic_value)],
       [key |-> "peg",       b |-> PegBucket(data.peg_ratio)] >>

FinancialParts(data) ==
    << [key |-> "liquidity",         b |-> CurrentRatioBucket(data.current_ratio)],
       [key |-> "quick_liquidity",   b |-> QuickRatioBucket(data.quick_ratio)],
       [key |-> "leverage",          b |-> DebtEquityBucket(data.debt_to_equity)],
       [key |-> "interest_coverage", b |-> CoverageBucket(data.interest_coverage)] >>

ProfitabilityParts(data) ==
    << [key |-> "roe",        b |-> RoeBucket(data.roe)],
       [key |-> "roic",       b |-> RoicBucket(data.roic)],
       [key |-> "op_margin",  b |-> OpMarginBucket(data.operating_margin)],
       [key |-> "net_margin", b |-> NetMarginBucket(data.profit_margin)] >>

GrowthParts(data) ==
    << [key |-> "earnings_growth",    b |-> EarningsGrowthBucket(data.earnings_growth)],
       [key |-> "revenue_growth",     b |-> RevenueGrowthBucket(data.revenue_growth)],
       [key |-> "quarterly_momentum", b |-> QuarterlyBucket(data.earnings_quarterly_growth)] >>

ManagementParts(data) ==
    << [key |-> "insider_alignment", b |-> InsiderBucket(data.insider_ownership)],
       [key |-> "institutional",     b |-> InstitutionalBucket(data.institutional_ownership)],
       [key |-> "efficiency",        b |-> EfficiencyBucket(data.roe)] >>

EthicsParts(data) ==
    << [key |-> "esg",         b |-> EsgBucket(data.esg_score)],
       [key |-> "governance",  b |-> GovernanceBucket(data.governance_score)],
       [key |-> "controversy", b |-> Bucket(0, "Low risk")] >>

\* score = 0; score += points of each sub-metric
PointSum(parts) == SumSeq([i \in DOMAIN parts |-> parts[i].b.points])

\* the details dict: the keys written, each with its entry
Details(parts) ==
    LET written == {i \in DOMAIN parts : parts[i].b.detail # NoTag}
    IN  [k \in {parts[i].key : i \in written} |->
            parts[CHOOSE i \in written : parts[i].key = k].b.detail]

\* What a scorer call gives: (score, details), or the TypeError of an ordering
\* comparison with None.
Scored(score, parts) == [exc |-> "none", score |-> score, details |-> Details(parts)]

TypeError == [exc |-> "TypeError", score |-> None, details |-> <<>>]

\* The ethics base score of line 629.
EthicsBase == 50

calculate_valuation_score(data) ==
    IF \/ IsNone(data.pe_ratio) \/ IsNone(data.pb_ratio) \/ IsNone(data.ps_ratio)
       \/ IsNone(data.price)
       \/ (data.price > 0 /\ IsNone(data.intrinsic_value))
       \/ IsNone(data.peg_ratio)
    THEN TypeError
    ELSE Scored(Min2(Pts(PointSum(ValuationParts(data))), Pts(100)), ValuationParts(data))

calculate_financial_score(data) ==
    IF \/ IsNone(data.current_ratio) \/ IsNone(data.quick_ratio)
       \/ IsNone(data.debt_to_equity) \/ IsNone(data.interest_coverage)
    THEN TypeError
    ELSE Scored(Min2(Pts(PointSum(FinancialParts(data))), Pts(100)), FinancialParts(data))

calculate_profitability_score(data) ==
    Scored(Min2(Pts(PointSum(ProfitabilityParts(data))), Pts(100)), ProfitabilityParts(data))

calculate_growth_score(data) ==
    Scored(Min2(Pts(PointSum(GrowthParts(data))), Pts(100)), GrowthParts(data))

calculate_management_score(data) ==
    Scored(Min2(Pts(PointSum(ManagementParts(data))), Pts(100)), ManagementParts(data))

\* The profile multipliers with conservative and flexible exchanged.
ProfileMultiplierExchanged(ethical_profile) ==
    IF ethical_profile = "conservative" THEN 110
    ELSE IF ethical_profile = "flexible" THEN 90
    ELSE Scale

\* line 660-663: score *= 0.9 (conservative), score *= 1.1 (flexible)
ProfileMultiplier(ethical_profile) ==
    IF ethical_profile = "conservative" THEN 90
    ELSE IF ethical_profile = "flexible" THEN 110
    ELSE Scale

\* The ethics scorer without the final min(score, 100).
calculate_ethics_score_uncapped(data, ethical_profile) ==
    IF IsNone(data.esg_score) \/ IsNone(data.governance_score)
    THEN TypeError
    ELSE LET score == Pts(EthicsBase + PointSum(EthicsParts(data)))
         IN  Scored(Mul(score, ProfileMultiplier(ethical_profile)), EthicsParts(data))

calculate_ethics_score(data, ethical_profile) ==
    IF IsNone(data.esg_score) \/ IsNone(data.governance_score)
    THEN TypeError
    ELSE LET score == Pts(EthicsBase + PointSum(EthicsParts(data)))
         IN  Scored(Min2(Mul(score, ProfileMultiplier(ethical_profile)), Pts(100)),
                    EthicsParts(data))

Categories == <<"valuation", "financial", "profitability", "growth", "management", "ethics">>

\* lines 673-680, in hundredths
weights ==
    [valuation |-> 25, financial |-> 20, profitability |-> 20,
     growth |-> 15, management |-> 10, ethics |-> 10]

\* round(x, 1) of a value given in ten-thousandths, as a fixed-point number: the
\* set of results binary floating point can give.  Away from a tie that is the
\* nearest tenth; on an exact decimal tie (x.x5) the float sum lies on either
\* side of it, so either neighbour can result.
Round1(x) ==
    LET unit == Scale * 10
        lo   == x \div unit
        rem  == x % unit
    IN  IF 2 * rem < unit THEN {lo * 10}
        ELSE IF 2 * rem > unit THEN {(lo + 1) * 10}
        ELSE {lo * 10, (lo + 1) * 10}

\* An overall score with the weights of valuation and ethics exchanged.
calculate_overall_score_exchanged(scores) ==
    Round1(SumSeq([i \in DOMAIN Categories |->
              scores[Categories[i]] *
                  (IF Categories[i] = "valuation" THEN weights.ethics
                   ELSE IF Categories[i] = "ethics" THEN weights.valuation
                   ELSE weights[Categories[i]])]))

\* lines 682-683: the results round(sum(scores[key] * weights[key]), 1) can have
calculate_overall_score(scores) ==
    Round1(SumSeq([i \in DOMAIN Categories |-> scores[Categories[i]] * weights[Categories[i]]]))

----------------------------------------------------------------------------
(* passes_filters.  The criteria dict is a function from its keys to their *)
(* values; criteria[key] of a missing key raises KeyError.  Every record   *)
(* of get_stock_data has every key, so data.get(key, default) is the       *)
(* record's value and the defaults are never used.  Each check is          *)
(* "reject" (return False), "pass" (go on to the next check) or the        *)
(* exception its evaluation raises.                                        *)

\* if data[field] > criteria[key] and data[field] > 0: return False
MaxCheckPositive(data, field, c, key) ==
    IF key \notin DOMAIN c THEN "KeyError"
    ELSE IF IsNone(data[field]) THEN "TypeError"
    ELSE IF data[field] > c[key] /\ data[field] > 0 THEN "reject"
    ELSE "pass"

\* if data[field] > criteria[key]: return False
MaxCheck(data, field, c, key) ==
    IF key \notin DOMAIN c THEN "KeyError"
    ELSE IF IsNone(data[field]) THEN "TypeError"
    ELSE IF data[field] > c[key] THEN "reject"
    ELSE "pass"

\* A minimum check that is skipped for a non-positive metric.
MinCheckPositive(data, field, c, key) ==
    IF key \notin DOMAIN c THEN "KeyError"
    ELSE IF IsNone(data[field]) THEN "TypeError"
    ELSE IF data[field] > 0 /\ data[field] < c[key] THEN "reject"
    ELSE "pass"

\* if data[field] < criteria[key]: return False
MinCheck(data, field, c, key) ==
    IF key \notin DOMAIN c THEN "KeyError"
    ELSE IF IsNone(data[field]) THEN "TypeError"
    ELSE IF data[field] < c[key] THEN "reject"
    ELSE "pass"

\* line 953: discount = (intrinsic - price) / intrinsic * 100
DiscountPercent(price, intrinsic) == Div(intrinsic - price, intrinsic) * 100

\* A discount check that also rejects a discount equal to the minimum.
DiscountCheckInclusive(data, c) ==
    IF IsNone(data.price) THEN "TypeError"
    ELSE IF data.price <= 0 THEN "pass"
    ELSE IF IsNone(data.intrinsic_value) THEN "TypeError"
    ELSE IF data.intrinsic_value <= 0 THEN "pass"
    ELSE IF "min_discount" \notin DOMAIN c THEN "KeyError"
    ELSE IF DiscountPercent(data.price, data.intrinsic_value) <= c.min_discount THEN "reject"
    ELSE "pass"

\* lines 949-955
DiscountCheck(data, c) ==
    IF IsNone(data.price) THEN "TypeError"
    ELSE IF data.price <= 0 THEN "pass"
    ELSE IF IsNone(data.intrinsic_value) THEN "TypeError"
    ELSE IF data.intrinsic_value <= 0 THEN "pass"
    ELSE IF "min_discount" \notin DOMAIN c THEN "KeyError"
    ELSE IF DiscountPercent(data.price, data.intrinsic_value) < c.min_discount THEN "reject"
    ELSE "pass"

\* A dividend requirement that checks the yield for "paying" only.
DividendYieldPayingOnly(data, c) ==
    IF "dividend_req" \notin DOMAIN c THEN "KeyError"
    ELSE IF c.dividend_req = "paying"
    THEN MinCheck(data, "dividend_yield", c, "min_div_yield")
    ELSE "pass"

\* lines 979-987, the dividend yield part
DividendYieldCheck(data, c) ==
    IF "dividend_req" \notin DOMAIN c THEN "KeyError"
    ELSE IF c.dividend_req \in {"paying", "growing"}
    THEN MinCheck(data, "dividend_yield", c, "min_div_yield")
    ELSE "pass"

\* A dividend requirement without the five-year part.
DividendHistoryUnchecked(data, c) ==
    IF "dividend_req" \notin DOMAIN c THEN "KeyError"
    ELSE "pass"

\* A five-year requirement made under 'paying' instead of 'growing'.
DividendHistoryOnPaying(data, c) ==
    IF "dividend_req" \notin DOMAIN c THEN "KeyError"
    ELSE IF c.dividend_req = "paying" /\ data.five_year_avg_dividend_yield = 0 THEN "reject"
    ELSE "pass"

\* lines 983-987, the five-year part (None == 0 is False)
DividendHistoryCheck(data, c) ==
    IF "dividend_req" \notin DOMAIN c THEN "KeyError"
    ELSE IF c.dividend_req = "growing" /\ data.five_year_avg_dividend_yield = 0 THEN "reject"
    ELSE "pass"

\* The checks in the order the code makes them.
FilterChecks(data, c) ==
    << MaxCheckPositive(data, "pe_ratio", c, "max_pe"),
       MaxCheckPositive(data, "pb_ratio", c, "max_pb"),
       DiscountCheck(data, c),
       MinCheck(data, "current_ratio", c, "min_current_ratio"),
       MaxCheck(data, "debt_to_equity", c, "max_debt_equity"),
       MinCheck(data, "interest_coverage", c, "min_interest_cov"),
       MinCheck(data, "roe", c, "min_roe"),
       MinCheck(data, "roic", c, "min_roic"),
       MinCheck(data, "operating_margin", c, "min_op_margin"),
       MinCheck(data, "earnings_growth", c, "min_earnings_growth"),
       MinCheck(data, "revenue_growth", c, "min_revenue_growth"),
       DividendYieldCheck(data, c),
       DividendHistoryCheck(data, c) >>

\* The first check that does not pass decides; the checks after it are not made.
RECURSIVE FirstDecision(_)
FirstDecision(checks) ==
    IF checks = <<>> THEN "pass"
    ELSE IF Head(checks) # "pass" THEN Head(checks)
    ELSE FirstDecision(Tail(checks))

\* The bool passes_filters returns, or the exception it raises.
passes_filters(data, c) ==
    LET d == FirstDecision(FilterChecks(data, c))
    IN  IF d = "pass" THEN [exc |-> "none", value |-> TRUE]
        ELSE IF d = "reject" THEN [exc |-> "none", value |-> FALSE]
        ELSE [exc |-> d, value |-> FALSE]

----------------------------------------------------------------------------
(* Records.                                                                *)

\* A record as get_stock_data builds it (lines 143-199), restricted to the
\* fields the valuation model, the filter and the scorers read.  BaseData is
\* a company that passes the default criteria of the sidebar.
BaseData ==
    [price |-> 10000, market_cap |-> 1000000,
     pe_ratio |-> 1200, pb_ratio |-> 100, ps_ratio |-> 80, peg_ratio |-> 90,
     roe |-> 2200, profit_margin |-> 1200, operating_margin |-> 1800,
     current_ratio |-> 250, quick_ratio |-> 180, debt_to_equity |-> 30,
     interest_coverage |-> 1200,
     revenue_growth |-> 800, earnings_growth |-> 1200, earnings_quarterly_growth |-> 600,
     dividend_yield |-> 200, five_year_avg_dividend_yield |-> 150,
     insider_ownership |-> 600, institutional_ownership |-> 6000,
     esg_score |-> 5000, governance_score |-> 5000,
     roic |-> 1600, free_cash_flow |-> 0, intrinsic_value |-> 14000]

\* The call of a pure function under study: its name and its arguments.
Call(fn, data, cash_flow, income_stmt, balance_sheet) ==
    [fn |-> fn, data |-> data, cash_flow |-> cash_flow,
     income_stmt |-> income_stmt, balance_sheet |-> balance_sheet,
     criteria |-> <<>>, profile |-> "moderate"]

----------------------------------------------------------------------------
(* Specification SpecValuation: the derived metrics of StockDataFetcher,   *)
(* each applied to inputs drawn from the sets below.                       *)

ValPrices == {None, 0, 5000, 10000}

ValPEs == {None, -500, 0, 1000, 2500}

ValCaps == {None, 0, 100000, 1000000}

ValGrowths == {-15000, -5000, 0, 1000, 1500, 3000}

ValCashFlows ==
    {NoStatement, EmptyStatement, Statement([l \in {"Operating Cash Flow"} |-> 20000])}
    \cup {Statement([l \in {"Free Cash Flow"} |-> v]) : v \in {-5000, 0, 10000, 50000}}

IntrinsicCalls ==
    {Call("_calculate_intrinsic_value",
          [BaseData EXCEPT !.price = p, !.pe_ratio = pe, !.market_cap = mc,
                           !.earnings_growth = g],
          cf, NoStatement, NoStatement) :
        p \in ValPrices, pe \in ValPEs, mc \in ValCaps, g \in ValGrowths, cf \in ValCashFlows}

ValIncomeStmts ==
    {NoStatement, EmptyStatement}
    \cup {Statement([l \in {"EBIT"} |-> e]) : e \in {-20000, 50000}}
    \cup {Statement([l \in {"Interest Expense"} |-> i]) : i \in {0, 10000}}
    \cup {Statement([l \in {"EBIT", "Interest Expense", "Net Income"} |->
                        IF l = "EBIT" THEN e ELSE IF l = "Net Income" THEN n ELSE i]) :
            e \in {-20000, 0, 50000}, i \in {-10000, 0, 10000}, n \in {-5000, 30000}}

ValBalanceSheets ==
    {NoStatement, EmptyStatement}
    \cup {Statement([l \in {"Total Assets"} |-> a]) : a \in {200000}}
    \cup {Statement([l \in {"Total Assets", "Current Liabilities"} |->
                        IF l = "Total Assets" THEN a ELSE c]) :
            a \in {0, 200000}, c \in {0, 50000, 200000, 300000}}

CoverageCalls ==
    {Call("_calculate_interest_coverage", BaseData, NoStatement, inc, NoStatement) :
        inc \in ValIncomeStmts}

RoicCalls ==
    {Call("_calculate_roic", [BaseData EXCEPT !.roe = r], NoStatement, inc, bs) :
        r \in {-1000, 0, 2200}, inc \in ValIncomeStmts, bs \in ValBalanceSheets}

FcfCalls ==
    {Call("_get_free_cash_flow", BaseData, cf, NoStatement, NoStatement) : cf \in ValCashFlows}

\* st.session_state.results: None (line 697), or the list stored by line 933
NoResults == [none |-> TRUE, list |-> <<>>]

Stored(list) == [none |-> FALSE, list |-> list]

Idle ==
    /\ criteria = <<>>
    /\ nsymbols = 0
    /\ idx = 0
    /\ results = <<>>
    /\ session_results = NoResults
    /\ history = <<>>
    /\ raised = "none"

session == <<criteria, nsymbols, idx, results, session_results, history, raised>>

InitValuation ==
    /\ pc = "call"
    /\ call \in IntrinsicCalls \cup CoverageCalls \cup RoicCalls \cup FcfCalls
    /\ out = None
    /\ Idle

Apply(fn, value) ==
    /\ pc = "call"
    /\ call.fn = fn
    /\ out' = value
    /\ pc' = "return"
    /\ UNCHANGED <<call, session>>

CallIntrinsicValue ==
    Apply("_calculate_intrinsic_value", _calculate_intrinsic_value(call.data, call.cash_flow))

CallInterestCoverage ==
    Apply("_calculate_interest_coverage", _calculate_interest_coverage(call.income_stmt))

CallRoic ==
    Apply("_calculate_roic", _calculate_roic(call.data, call.balance_sheet, call.income_stmt))

CallFreeCashFlow ==
    Apply("_get_free_cash_flow", _get_free_cash_flow(call.cash_flow))

NextValuation ==
    \/ CallIntrinsicValue
    \/ CallInterestCoverage
    \/ CallRoic
    \/ CallFreeCashFlow

SpecValuation == InitValuation /\ [][NextValuation]_vars

Returned(fn) == pc = "return" /\ call.fn = fn

----------------------------------------------------------------------------
(* Specification SpecScore: the scoring block of run_screening (lines      *)
(* 882-900) applied to one record and one ethical profile: the six scorers *)
(* in the order of the code, then calculate_overall_score.                 *)

Profiles == {"conservative", "moderate", "flexible"}

\* A company in the lowest bucket of every sub-metric, and one in the highest.
WorstData ==
    [BaseData EXCEPT
        !.pe_ratio = 0, !.pb_ratio = 600, !.ps_ratio = 400, !.peg_ratio = 300,
        !.intrinsic_value = 0,
        !.roe = 500, !.roic = 300, !.operating_margin = 500, !.profit_margin = 200,
        !.current_ratio = 50, !.quick_ratio = 20, !.debt_to_equity = 300,
        !.interest_coverage = 100,
        !.earnings_growth = -500, !.revenue_growth = -500,
        !.earnings_quarterly_growth = -500,
        !.insider_ownership = 100, !.institutional_ownership = 1000,
        !.esg_score = 2000, !.governance_score = 3000]

BestData ==
    [BaseData EXCEPT
        !.intrinsic_value = 20000,
        !.roic = 1600, !.operating_margin = 2500, !.profit_margin = 1800,
        !.earnings_growth = 2000, !.revenue_growth = 1800,
        !.earnings_quarterly_growth = 1600,
        !.insider_ownership = 1200,
        !.esg_score = 8000, !.governance_score = 8000]

\* The values each field is drawn from: around every bucket limit of the
\* scorers, zero, and None for the fields get_stock_data copies unconverted.
Samples ==
    [price |-> {None, 0, 7000, 7001, 8500, 8501, 10000, 10001},
     intrinsic_value |-> {None, 0, 10000, 14000, 20000},
     pe_ratio |-> {None, -500, 0, 1200, 1500, 1501, 2000, 2001, 2500, 2501},
     pb_ratio |-> {None, 0, 100, 150, 151, 300, 301, 500, 501},
     ps_ratio |-> {None, 0, 80, 100, 101, 200, 201, 300, 301},
     peg_ratio |-> {None, 0, 90, 100, 101, 150, 151, 200, 201},
     current_ratio |-> {None, 0, 99, 100, 149, 150, 199, 200, 250},
     quick_ratio |-> {None, 0, 49, 50, 99, 100, 149, 150, 180},
     debt_to_equity |-> {None, 0, 30, 50, 51, 100, 101, 200, 201},
     interest_coverage |-> {0, 199, 200, 499, 500, 999, 1000, 1200},
     roe |-> {-500, 0, 999, 1000, 1499, 1500, 1999, 2000},
     roic |-> {-400, 0, 799, 800, 1199, 1200, 1499, 1500},
     operating_margin |-> {-500, 0, 999, 1000, 1499, 1500, 1999, 2000},
     profit_margin |-> {-500, 0, 499, 500, 999, 1000, 1499, 1500},
     earnings_growth |-> {-500, -1, 0, 499, 500, 999, 1000, 1499, 1500},
     revenue_growth |-> {-500, -1, 0, 499, 500, 999, 1000, 1499, 1500},
     earnings_quarterly_growth |-> {-500, -1, 0, 499, 500, 1499, 1500},
     insider_ownership |-> {0, 199, 200, 499, 500, 999, 1000},
     institutional_ownership |-> {0, 1999, 2000, 3999, 4000, 8000, 8001, 9000, 9001, 10000},
     esg_score |-> {None, 0, 2999, 3000, 4999, 5000, 6999, 7000, 7500},
     governance_score |-> {None, 0, 4999, 5000, 6999, 7000, 7500}]

\* The fields each scorer reads.
ScorerFields ==
    [valuation |-> {"pe_ratio", "pb_ratio", "ps_ratio", "price", "intrinsic_value", "peg_ratio"},
     financial |-> {"current_ratio", "quick_ratio", "debt_to_equity", "interest_coverage"},
     profitability |-> {"roe", "roic", "operating_margin", "profit_margin"},
     growth |-> {"earnings_growth", "revenue_growth", "earnings_quarterly_growth"},
     management |-> {"insider_ownership", "institutional_ownership", "roe"},
     ethics |-> {"esg_score", "governance_score"}]

\* The records that differ from 'base' in at most two fields of one group.
Variants(base, groups) ==
    UNION {{[base EXCEPT ![f1] = v1, ![f2] = v2] :
              v1 \in Samples[f1] \cup {base[f1]}, v2 \in Samples[f2] \cup {base[f2]}} :
           <<f1, f2>> \in UNION {groups[g] \X groups[g] : g \in DOMAIN groups}}

ScoreRecords == UNION {Variants(base, ScorerFields) : base \in {WorstData, BaseData, BestData}}

ScoreCall(data, profile) ==
    [Call("score", data, NoStatement, NoStatement, NoStatement) EXCEPT !.profile = profile]

NoScores == [scores |-> <<>>, details |-> <<>>, overall |-> None]

\* scores[category], score_details[category] := the scorer's result
WithScore(o, category, r) ==
    [o EXCEPT !.scores  = [k \in DOMAIN o.scores \cup {category} |->
                              IF k = category THEN r.score ELSE o.scores[k]],
              !.details = [k \in DOMAIN o.details \cup {category} |->
                              IF k = category THEN r.details ELSE o.details[k]]]

InitScore ==
    /\ pc = "valuation"
    /\ call \in {ScoreCall(d, p) : d \in ScoreRecords, p \in Profiles}
    /\ out = NoScores
    /\ Idle

\* One scorer call of lines 884-889: its result is kept and the next scorer is
\* due, or its exception ends the block.
ScoreStep(category, r, then) ==
    /\ pc = category
    /\ IF r.exc = "none"
       THEN /\ out' = WithScore(out, category, r)
            /\ pc' = then
            /\ UNCHANGED raised
       ELSE /\ pc' = "raised"
            /\ raised' = r.exc
            /\ UNCHANGED out
    /\ UNCHANGED <<call, criteria, nsymbols, idx, results, session_results, history>>

ScoreValuation == ScoreStep("valuation", calculate_valuation_score(call.data), "financial")

ScoreFinancial == ScoreStep("financial", calculate_financial_score(call.data), "profitability")

ScoreProfitability ==
    ScoreStep("profitability", calculate_profitability_score(call.data), "growth")

ScoreGrowth == ScoreStep("growth", calculate_growth_score(call.data), "management")

ScoreManagement == ScoreStep("management", calculate_management_score(call.data), "ethics")

ScoreEthics == ScoreStep("ethics", calculate_ethics_score(call.data, call.profile), "overall")

\* line 900
ScoreOverall ==
    /\ pc = "overall"
    /\ \E o \in calculate_overall_score(out.scores) : out' = [out EXCEPT !.overall = o]
    /\ pc' = "scored"
    /\ UNCHANGED <<call, session>>

NextScore ==
    \/ ScoreValuation
    \/ ScoreFinancial
    \/ ScoreProfitability
    \/ ScoreGrowth
    \/ ScoreManagement
    \/ ScoreEthics
    \/ ScoreOverall

SpecScore == InitScore /\ [][NextScore]_vars

----------------------------------------------------------------------------
(* Specification SpecFilter: passes_filters applied to a record and a      *)
(* criteria dict as main builds it from the sidebar (lines 821-836).       *)

\* The sidebar's initial values (lines 738-791).
DefaultCriteria ==
    [max_pe |-> 2500, max_pb |-> 300, min_discount |-> 1500,
     min_current_ratio |-> 150, max_debt_equity |-> 100, min_interest_cov |-> 500,
     min_roe |-> 1500, min_roic |-> 1200, min_op_margin |-> 1000,
     min_earnings_growth |-> 500, min_revenue_growth |-> 300,
     ethical_profile |-> "moderate", dividend_req |-> "any", min_div_yield |-> 0]

\* Every slider at its most permissive end, and at its most demanding end.
LenientCriteria ==
    [max_pe |-> 5000, max_pb |-> 500, min_discount |-> 0,
     min_current_ratio |-> 100, max_debt_equity |-> 300, min_interest_cov |-> 200,
     min_roe |-> 500, min_roic |-> 500, min_op_margin |-> 0,
     min_earnings_growth |-> -1000, min_revenue_growth |-> -1000,
     ethical_profile |-> "flexible", dividend_req |-> "any", min_div_yield |-> 0]

StrictCriteria ==
    [max_pe |-> 500, max_pb |-> 50, min_discount |-> 5000,
     min_current_ratio |-> 300, max_debt_equity |-> 0, min_interest_cov |-> 2000,
     min_roe |-> 4000, min_roic |-> 3500, min_op_margin |-> 4000,
     min_earnings_growth |-> 3000, min_revenue_growth |-> 2500,
     ethical_profile |-> "conservative", dividend_req |-> "any", min_div_yield |-> 0]

\* lines 778-791: min_div_yield is a slider unless dividend_req is "any"
DividendChoices ==
    {<<"any", 0>>, <<"paying", 0>>, <<"paying", 100>>, <<"growing", 0>>, <<"growing", 100>>}

SidebarCriteria ==
    {[c EXCEPT !.dividend_req = dv[1], !.min_div_yield = dv[2]] :
        c \in {DefaultCriteria, LenientCriteria, StrictCriteria}, dv \in DividendChoices}

FilterSamples ==
    [pe_ratio |-> {None, -500, 0, 400, 1200, 2500, 2501, 6000},
     pb_ratio |-> {None, -100, 0, 40, 100, 300, 301, 600},
     price |-> {None, 0, 5000, 10000, 11900, 12000, 14000, 15000},
     intrinsic_value |-> {None, 0, 10000, 14000, 30000},
     current_ratio |-> {None, 0, 99, 149, 150, 250, 300},
     debt_to_equity |-> {None, -50, 0, 100, 101, 301},
     interest_coverage |-> {0, 199, 499, 500, 2000},
     roe |-> {-500, 0, 499, 1499, 1500, 4000},
     roic |-> {-400, 0, 499, 1199, 1200, 3500},
     operating_margin |-> {-100, 0, 999, 1000, 4000},
     earnings_growth |-> {-1500, -500, 0, 499, 500, 3000},
     revenue_growth |-> {-1500, -500, 0, 299, 300, 2500},
     dividend_yield |-> {0, 99, 100, 200},
     five_year_avg_dividend_yield |-> {None, 0, 150}]

\* Records that differ from the base in at most two of the fields the filter reads.
FilterRecords ==
    UNION {{[base EXCEPT ![f1] = v1, ![f2] = v2] :
              v1 \in FilterSamples[f1] \cup {base[f1]},
              v2 \in FilterSamples[f2] \cup {base[f2]}} :
           <<base, f1, f2>> \in {BaseData, WorstData} \X (DOMAIN FilterSamples) \X (DOMAIN FilterSamples)}

FilterCall(data, c) ==
    [Call("passes_filters", data, NoStatement, NoStatement, NoStatement) EXCEPT !.criteria = c]

InitFilter ==
    /\ pc = "call"
    /\ call \in {FilterCall(d, c) : d \in FilterRecords, c \in SidebarCriteria}
    /\ out = None
    /\ Idle

CallPassesFilters ==
    Apply("passes_filters", passes_filters(call.data, call.criteria))

NextFilter ==
    \/ CallPassesFilters

SpecFilter == InitFilter /\ [][NextFilter]_vars

----------------------------------------------------------------------------
(* Specification Spec: a session of the dashboard.  Each click on "Run     *)
(* Screening" calls run_screening, which walks the symbol list, and on     *)
(* completion stores the ranked list in st.session_state.results.  An      *)
(* exception leaves run_screening (nothing in it catches one); the session *)
(* state stays and the user can click again.                               *)

MaxSymbols == 3

\* An insertion that puts a result before the results of equal score.
RECURSIVE InsertDescUnstable(_, _)
InsertDescUnstable(sorted, x) ==
    IF sorted = <<>> THEN <<x>>
    ELSE IF Head(sorted).overall_score > x.overall_score
         THEN <<Head(sorted)>> \o InsertDescUnstable(Tail(sorted), x)
         ELSE <<x>> \o sorted

\* results.sort(key=lambda x: x['overall_score'], reverse=True): list.sort is
\* stable, and with reverse=True equal keys keep their original order.
RECURSIVE InsertDesc(_, _)
InsertDesc(sorted, x) ==
    IF sorted = <<>> THEN <<x>>
    ELSE IF Head(sorted).overall_score >= x.overall_score
         THEN <<Head(sorted)>> \o InsertDesc(Tail(sorted), x)
         ELSE <<x>> \o sorted

RECURSIVE SortDesc(_)
SortDesc(list) ==
    IF list = <<>> THEN <<>>
    ELSE InsertDesc(SortDesc(SubSeq(list, 1, Len(list) - 1)), list[Len(list)])

\* What the provider can answer for a symbol.
GoodInfo ==
    [currentPrice |-> 10000, marketCap |-> 1000000,
     trailingPE |-> 1200, priceToBook |-> 100, priceToSalesTrailing12Months |-> 80,
     pegRatio |-> 90,
     returnOnEquity |-> 22, profitMargins |-> 12, operatingMargins |-> 18,
     currentRatio |-> 250, quickRatio |-> 180, debtToEquity |-> 30,
     revenueGrowth |-> 10, earningsGrowth |-> 16, earningsQuarterlyGrowth |-> 2,
     dividendYield |-> 2, fiveYearAvgDividendYield |-> 150,
     heldPercentInsiders |-> 6, heldPercentInstitutions |-> 60]

GoodIncome ==
    Statement([l \in {"EBIT", "Interest Expense", "Net Income"} |->
                  IF l = "EBIT" THEN 50000 ELSE IF l = "Interest Expense" THEN 4000 ELSE 30000])

GoodBalance ==
    Statement([l \in {"Total Assets", "Current Liabilities"} |->
                  IF l = "Total Assets" THEN 250000 ELSE 50000])

GoodCashFlow == Statement([l \in {"Free Cash Flow"} |-> 70000])

Response(info) ==
    [error |-> FALSE, info |-> info, esg |-> NoStatement,
     income_stmt |-> GoodIncome, balance_sheet |-> GoodBalance, cash_flow |-> GoodCashFlow]

ProviderResponses ==
    { \* the provider raises
      [Response(GoodInfo) EXCEPT !.error = TRUE],
      \* a company that passes the default criteria
      Response(GoodInfo),
      \* one that passes with a lower score
      Response([GoodInfo EXCEPT !.trailingPE = 2200, !.heldPercentInsiders = 1]),
      \* one the default criteria reject
      Response([GoodInfo EXCEPT !.trailingPE = 4000]),
      \* one whose trailing P/E the provider lists without a value
      Response([GoodInfo EXCEPT !.trailingPE = None]) }

\* The criteria run_screening can be called with: the sidebar's dict, an empty
\* dict, and a dict without 'ethical_profile'.
EmptyCriteria == <<>>

WithoutProfile == [k \in DOMAIN DefaultCriteria \ {"ethical_profile"} |-> DefaultCriteria[k]]

RunCriteria == {DefaultCriteria, EmptyCriteria, WithoutProfile}

NoCall == Call("none", BaseData, NoStatement, NoStatement, NoStatement)

Init ==
    /\ pc = "idle"
    /\ call = NoCall
    /\ out = NoRecord
    /\ Idle

\* lines 858-867: the click, get_stock_list and the empty result list
StartRun ==
    /\ pc = "idle"
    /\ \E c \in RunCriteria, n \in 1..MaxSymbols :
          /\ criteria' = c
          /\ nsymbols' = n
    /\ idx' = 1
    /\ results' = <<>>
    /\ history' = <<>>
    /\ raised' = "none"
    /\ out' = NoRecord
    /\ pc' = "loop"
    /\ UNCHANGED <<call, session_results>>

\* lines 884-889: the scorer results in call order; criteria['ethical_profile']
\* is looked up when the ethics scorer is called.
ScorerResults(data, c) ==
    << calculate_valuation_score(data),
       calculate_financial_score(data),
       calculate_profitability_score(data),
       calculate_growth_score(data),
       calculate_management_score(data),
       IF "ethical_profile" \in DOMAIN c
       THEN calculate_ethics_score(data, c.ethical_profile)
       ELSE [exc |-> "KeyError", score |-> None, details |-> <<>>] >>

\* the exception of the first scorer call that raises, or "none"
RECURSIVE FirstException(_)
FirstException(rs) ==
    IF rs = <<>> THEN "none"
    ELSE IF Head(rs).exc # "none" THEN Head(rs).exc
    ELSE FirstException(Tail(rs))

\* lines 891-898
ScoresDict(rs) == [k \in {Categories[i] : i \in DOMAIN Categories} |->
                      rs[CHOOSE i \in DOMAIN Categories : Categories[i] = k].score]

\* A result whose overall score carries over from the results scored before it
\* in the run.
ResultCarryingOver(symbol, data, rs, overall) ==
    [symbol |-> symbol, data |-> data, overall_score |-> overall + 10 * Len(results),
     scores |-> ScoresDict(rs),
     score_details |-> [k \in {Categories[i] : i \in DOMAIN Categories} |->
                           rs[CHOOSE i \in DOMAIN Categories : Categories[i] = k].details]]

\* lines 903-920
Result(symbol, data, rs, overall) ==
    [symbol |-> symbol, data |-> data, overall_score |-> overall,
     scores |-> ScoresDict(rs),
     score_details |-> [k \in {Categories[i] : i \in DOMAIN Categories} |->
                           rs[CHOOSE i \in DOMAIN Categories : Categories[i] = k].details]]

\* the loop goes on to the next symbol
Continue(outcome, newresults) ==
    /\ history' = Append(history, outcome)
    /\ results' = newresults
    /\ idx' = idx + 1
    /\ UNCHANGED <<pc, raised>>

\* A skip that leaves the loop instead of going on to the next symbol.
SkipSymbolBreak(outcome) ==
    /\ history' = Append(history, outcome)
    /\ results' = results
    /\ idx' = nsymbols + 1
    /\ UNCHANGED <<pc, raised>>

\* 'continue' (lines 876 and 880): nothing is stored for the symbol
SkipSymbol(outcome) == Continue(outcome, results)

\* an exception leaves run_screening
Raise(exc) ==
    /\ history' = Append(history, "raised")
    /\ raised' = exc
    /\ results' = <<>>
    /\ idx' = 0
    /\ pc' = "idle"

\* lines 869-925: one iteration of the loop
ProcessSymbol ==
    /\ pc = "loop"
    /\ idx <= nsymbols
    /\ \E resp \in ProviderResponses :
          LET fetch == get_stock_data(resp)
              data  == fetch.data
              pf    == passes_filters(data, criteria)
              rs    == ScorerResults(data, criteria)
          IN  /\ out' = fetch
              /\ IF fetch.none THEN SkipSymbol("no record")
                 ELSE IF pf.exc # "none" THEN Raise(pf.exc)
                 ELSE IF ~pf.value THEN SkipSymbol("rejected")
                 ELSE IF FirstException(rs) # "none" THEN Raise(FirstException(rs))
                 ELSE \E overall \in calculate_overall_score(ScoresDict(rs)) :
                         Continue("stored", Append(results, Result(idx, data, rs, overall)))
    /\ UNCHANGED <<call, criteria, nsymbols, session_results>>

\* A completion that stores the list of the run whatever its length.
FinishRunStoringAlways ==
    /\ pc = "loop"
    /\ idx > nsymbols
    /\ session_results' = Stored(SortDesc(results))
    /\ results' = <<>>
    /\ idx' = 0
    /\ pc' = "idle"
    /\ UNCHANGED <<call, out, criteria, nsymbols, history, raised>>

\* lines 927-937: after the loop
FinishRun ==
    /\ pc = "loop"
    /\ idx > nsymbols
    /\ session_results' = IF Len(results) > 0 THEN Stored(SortDesc(results))
                                              ELSE session_results
    /\ results' = <<>>
    /\ idx' = 0
    /\ pc' = "idle"
    /\ UNCHANGED <<call, out, criteria, nsymbols, history, raised>>

Next ==
    \/ StartRun
    \/ ProcessSymbol
    \/ FinishRun

Spec == Init /\ [][Next]_vars

----------------------------------------------------------------------------
(* Claims.                                                                 *)

FilterFields == DOMAIN FilterSamples

Passes(data, c) == passes_filters(data, c) = [exc |-> "none", value |-> TRUE]

\* the run of the session that ended last completed its loop
RunCompleted == pc = "idle" /\ raised = "none" /\ history # <<>>

Symbols(list) == {list[i].symbol : i \in DOMAIN list}

StoredSymbols == {i \in DOMAIN history : history[i] = "stored"}

\* C1: for every record whose price has a value, the intrinsic value returned
\* by _calculate_intrinsic_value is a number that is at least 0.5 * price,
\* the earnings-multiple fallback (free cash flow <= 0) included.
C1_IntrinsicFloorAlways ==
    (Returned("_calculate_intrinsic_value") /\ ~IsNone(call.data.price))
        => (~IsNone(out) /\ out >= Mul(call.data.price, 50))

\* C2: for every record the scorers accept and every ethical profile, each of
\* the six category scores lies in [0, 100], and so does the overall score
\* calculate_overall_score computes from them.
C2_ScoresInRange ==
    /\ \A k \in DOMAIN out.scores : 0 <= out.scores[k] /\ out.scores[k] <= Pts(100)
    /\ pc = "scored" => (0 <= out.overall /\ out.overall <= Pts(100))

\* C2 witness: a flexible-profile record whose ethics points exceed 100 before
\* the cap has been scored, with all six scores and the overall score at 100.
C2_Witness ==
    /\ pc = "scored"
    /\ call.profile = "flexible"
    /\ Mul(Pts(EthicsBase + PointSum(EthicsParts(call.data))), 110) > Pts(100)
    /\ \A k \in DOMAIN out.scores : out.scores[k] = Pts(100)
    /\ out.overall = Pts(100)

\* The reject conditions of the twelve checks, stated one by one.
FailedChecks(d, c) ==
    {n \in {"pe", "pb", "discount", "current_ratio", "debt_to_equity", "interest_coverage",
            "roe", "roic", "operating_margin", "earnings_growth", "revenue_growth",
            "dividend"} :
        CASE n = "pe" -> d.pe_ratio > 0 /\ d.pe_ratio > c.max_pe
          [] n = "pb" -> d.pb_ratio > 0 /\ d.pb_ratio > c.max_pb
          [] n = "discount" ->
                /\ d.price > 0
                /\ d.intrinsic_value > 0
                /\ (d.intrinsic_value - d.price) * 100 * Scale < c.min_discount * d.intrinsic_value
          [] n = "current_ratio" -> d.current_ratio < c.min_current_ratio
          [] n = "debt_to_equity" -> d.debt_to_equity > c.max_debt_equity
          [] n = "interest_coverage" -> d.interest_coverage < c.min_interest_cov
          [] n = "roe" -> d.roe < c.min_roe
          [] n = "roic" -> d.roic < c.min_roic
          [] n = "operating_margin" -> d.operating_margin < c.min_op_margin
          [] n = "earnings_growth" -> d.earnings_growth < c.min_earnings_growth
          [] n = "revenue_growth" -> d.revenue_growth < c.min_revenue_growth
          [] n = "dividend" ->
                \/ c.dividend_req \in {"paying", "growing"} /\ d.dividend_yield < c.min_div_yield
                \/ c.dividend_req = "growing" /\ d.five_year_avg_dividend_yield = 0}

\* C3: passes_filters is the conjunction of its checks: whenever it returns, it
\* returns False if at least one check fails and True if every check passes,
\* for each of the three dividend_req values.
C3_FilterConjunction ==
    (Returned("passes_filters") /\ out.exc = "none")
        => (out.value <=> FailedChecks(call.data, call.criteria) = {})

\* C3 witness: under dividend_req = "growing" with a positive minimum yield a
\* record passed every check and passes_filters returned True.
C3_Witness ==
    /\ Returned("passes_filters")
    /\ call.criteria.dividend_req = "growing"
    /\ call.criteria.min_div_yield > 0
    /\ FailedChecks(call.data, call.criteria) = {}
    /\ out = [exc |-> "none", value |-> TRUE]

\* The minimum-threshold metrics of the filter and the criteria key of each.
MinKey ==
    [current_ratio |-> "min_current_ratio", interest_coverage |-> "min_interest_cov",
     roe |-> "min_roe", roic |-> "min_roic", operating_margin |-> "min_op_margin",
     earnings_growth |-> "min_earnings_growth", revenue_growth |-> "min_revenue_growth"]

\* Every check other than the one on 'field' passes: some value of the field
\* makes the record pass.
OthersPass(d, field, c) ==
    \E v \in FilterSamples[field] \ {None} : Passes([d EXCEPT ![field] = v], c)

NonPositive(x) == ~IsNone(x) /\ x <= 0

\* C4 as stated: every threshold check is skipped when its metric is
\* non-positive, so a record whose current_ratio, interest_coverage, roe, roic,
\* operating_margin, earnings_growth or revenue_growth is <= 0 is not rejected
\* by that metric's check, as for pe_ratio and pb_ratio.
C4_SkippedWhenNonPositive ==
    (Returned("passes_filters") /\ out.exc = "none")
        => \A f \in DOMAIN MinKey \cup {"pe_ratio", "pb_ratio"} :
              (NonPositive(call.data[f]) /\ OthersPass(call.data, f, call.criteria))
                  => out.value

\* C4 amended: only the max_pe and max_pb checks are skipped for a non-positive
\* metric.  A record whose pe_ratio or pb_ratio is <= 0 is not rejected by that
\* check; a record whose current_ratio, interest_coverage, roe, roic,
\* operating_margin, earnings_growth or revenue_growth is <= 0 is rejected by
\* that metric's check exactly when the value is below the criterion.
C4_OnlyPePbSkipped ==
    (Returned("passes_filters") /\ out.exc = "none")
        => /\ \A f \in {"pe_ratio", "pb_ratio"} :
                 (NonPositive(call.data[f]) /\ OthersPass(call.data, f, call.criteria))
                     => out.value
           /\ \A f \in DOMAIN MinKey :
                 (NonPositive(call.data[f]) /\ OthersPass(call.data, f, call.criteria))
                     => (out.value <=> call.data[f] >= call.criteria[MinKey[f]])

\* C4 witness: a record with pe_ratio <= 0 and current_ratio = 0 whose other
\* checks pass was rejected.
C4_Witness ==
    /\ Returned("passes_filters")
    /\ NonPositive(call.data.pe_ratio)
    /\ call.data.current_ratio = 0
    /\ OthersPass(call.data, "current_ratio", call.criteria)
    /\ out = [exc |-> "none", value |-> FALSE]

SortedDescending(list) ==
    \A i \in 1..(Len(list) - 1) : list[i].overall_score >= list[i + 1].overall_score

TiesInInputOrder(list) ==
    \A i, j \in DOMAIN list :
        (i < j /\ list[i].overall_score = list[j].overall_score)
            => list[i].symbol < list[j].symbol

\* C5: the result list run_screening stores is sorted in descending order of
\* overall_score, and results with equal overall_score keep the relative
\* order their symbols had in the input list.
C5_RankedStable ==
    ~session_results.none
        => /\ SortedDescending(session_results.list)
           /\ TiesInInputOrder(session_results.list)

\* C5 witness: a stored list of three in which the sort moved the first symbol
\* to the end, behind two results of equal score.
C5_Witness ==
    /\ RunCompleted
    /\ ~session_results.none
    /\ Len(session_results.list) = 3
    /\ session_results.list[1].overall_score = session_results.list[2].overall_score
    /\ session_results.list[3].symbol = 1
    /\ session_results.list[3].overall_score < session_results.list[2].overall_score

\* C6: a symbol for which get_stock_data returns None is left out of the
\* results and does not stop the batch: a run ends before its last symbol only
\* by an exception, the loop has handled one symbol per step, and the list a
\* completed run stores holds exactly the symbols that passed.
C6_NoRecordSkipped ==
    /\ \A i \in DOMAIN history : history[i] = "no record" => i \notin Symbols(results)
    /\ pc = "loop" => (Len(history) = idx - 1 /\ Symbols(results) = StoredSymbols)
    /\ (pc = "idle" /\ history # <<>> /\ Len(history) < nsymbols)
          => history[Len(history)] = "raised"
    /\ (RunCompleted /\ StoredSymbols # {})
          => (~session_results.none /\ Symbols(session_results.list) = StoredSymbols)

\* C6 witness: a completed run whose first symbol gave no record and whose
\* later symbols were stored.
C6_Witness ==
    /\ RunCompleted
    /\ nsymbols = 3
    /\ history = <<"no record", "stored", "stored">>
    /\ Symbols(session_results.list) = {2, 3}

\* C7: no single symbol's record makes the core raise: called with the
\* sidebar's criteria, passes_filters and the scorers return for every record
\* get_stock_data can return, so no run of run_screening ends by an exception.
C7_NoRecordRaises ==
    (criteria = DefaultCriteria /\ ~out.none) => raised = "none"

EthicsScore(profile) == calculate_ethics_score(call.data, profile).score

\* C8: for every pair of esg_score and governance_score,
\* score(conservative) <= score(moderate) <= score(flexible) <= 100.
C8_EthicsOrdered ==
    pc \in {"overall", "scored"}
        => /\ EthicsScore("conservative") <= EthicsScore("moderate")
           /\ EthicsScore("moderate") <= EthicsScore("flexible")
           /\ EthicsScore("flexible") <= Pts(100)
           /\ out.scores.ethics = EthicsScore(call.profile)

\* C8 witness: the ethics scorer has run on a record for which the three
\* profiles give three different scores.
C8_Witness ==
    /\ pc = "overall"
    /\ EthicsScore("conservative") < EthicsScore("moderate")
    /\ EthicsScore("moderate") < EthicsScore("flexible")

\* The sub-metrics of the scorers, by the key each writes in the details dict,
\* with the record field each reads.  The discount to intrinsic value (key
\* "valuation") is computed from two fields and is handled beside them.
SubMetricField ==
    [pe |-> "pe_ratio", pb |-> "pb_ratio", ps |-> "ps_ratio", peg |-> "peg_ratio",
     liquidity |-> "current_ratio", quick_liquidity |-> "quick_ratio",
     leverage |-> "debt_to_equity", interest_coverage |-> "interest_coverage",
     roe |-> "roe", roic |-> "roic", op_margin |-> "operating_margin",
     net_margin |-> "profit_margin",
     earnings_growth |-> "earnings_growth", revenue_growth |-> "revenue_growth",
     quarterly_momentum |-> "earnings_quarterly_growth",
     insider_alignment |-> "insider_ownership", institutional |-> "institutional_ownership",
     efficiency |-> "roe", esg |-> "esg_score", governance |-> "governance_score"]

SubPoints(m, v) ==
    CASE m = "pe" -> PeBucket(v).points
      [] m = "pb" -> PbBucket(v).points
      [] m = "ps" -> PsBucket(v).points
      [] m = "peg" -> PegBucket(v).points
      [] m = "liquidity" -> CurrentRatioBucket(v).points
      [] m = "quick_liquidity" -> QuickRatioBucket(v).points
      [] m = "leverage" -> DebtEquityBucket(v).points
      [] m = "interest_coverage" -> CoverageBucket(v).points
      [] m = "roe" -> RoeBucket(v).points
      [] m = "roic" -> RoicBucket(v).points
      [] m = "op_margin" -> OpMarginBucket(v).points
      [] m = "net_margin" -> NetMarginBucket(v).points
      [] m = "earnings_growth" -> EarningsGrowthBucket(v).points
      [] m = "revenue_growth" -> RevenueGrowthBucket(v).points
      [] m = "quarterly_momentum" -> QuarterlyBucket(v).points
      [] m = "insider_alignment" -> InsiderBucket(v).points
      [] m = "institutional" -> InstitutionalBucket(v).points
      [] m = "efficiency" -> EfficiencyBucket(v).points
      [] m = "esg" -> EsgBucket(v).points
      [] m = "governance" -> GovernanceBucket(v).points

HighIsBad == {"pe", "pb", "ps", "peg", "leverage"}

\* the values of the metric above x that the field is drawn from
Raised(m, x) == {y \in Samples[SubMetricField[m]] \ {None} : y > x}

NeverLowers(m, x) == \A y \in Raised(m, x) : SubPoints(m, y) >= SubPoints(m, x)

NeverRaises(m, x) == \A y \in Raised(m, x) : SubPoints(m, y) <= SubPoints(m, x)

\* the same for the discount to intrinsic value, over the price: a higher price
\* is a lower discount
DiscountNeverLowers(d) ==
    \A p \in Samples.price \ {None} :
        (0 < p /\ p < d.price /\ d.intrinsic_value > 0)
            => ValuationBucket(p, d.intrinsic_value).points
                   >= ValuationBucket(d.price, d.intrinsic_value).points

\* C9 as stated: with the other metrics fixed, raising a metric never lowers
\* its sub-metric's points, except for P/E, P/B, P/S, PEG and debt/equity, for
\* which raising it never raises them; over the whole range, 0 and
\* institutional ownership above 80 and 90 included.
C9_MonotoneEverywhere ==
    pc = "scored"
        => /\ \A m \in DOMAIN SubMetricField \ HighIsBad :
                 NeverLowers(m, call.data[SubMetricField[m]])
           /\ \A m \in HighIsBad : NeverRaises(m, call.data[SubMetricField[m]])
           /\ DiscountNeverLowers(call.data)

\* C9 amended: the same, except that (1) for P/E, P/B, P/S and PEG raising the
\* value never raises the points over values above 0 only (a multiple <= 0 is
\* "not meaningful" and stands outside the order of the buckets), and (2)
\* institutional ownership is a band: raising it never lowers its points up
\* to 80 and never raises them from 40 on.
C9_MonotoneOnMeaningfulRange ==
    pc = "scored"
        => /\ \A m \in DOMAIN SubMetricField \ (HighIsBad \cup {"institutional"}) :
                 NeverLowers(m, call.data[SubMetricField[m]])
           /\ \A m \in HighIsBad :
                 (m = "leverage" \/ call.data[SubMetricField[m]] > 0)
                     => NeverRaises(m, call.data[SubMetricField[m]])
           /\ LET x == call.data.institutional_ownership
              IN  \A y \in Raised("institutional", x) :
                     /\ y <= 8000 => SubPoints("institutional", y) >= SubPoints("institutional", x)
                     /\ x >= 4000 => SubPoints("institutional", y) <= SubPoints("institutional", x)
           /\ DiscountNeverLowers(call.data)

\* C9 witness: a scored record with a positive P/E and an institutional
\* ownership at the top of the 40-80 band, each below values that score less.
C9_Witness ==
    /\ pc = "scored"
    /\ call.data.pe_ratio > 0
    /\ \E y \in Raised("pe", call.data.pe_ratio) :
          SubPoints("pe", y) < SubPoints("pe", call.data.pe_ratio)
    /\ call.data.institutional_ownership = 8000
    /\ \E y \in Raised("institutional", 8000) :
          SubPoints("institutional", y) < SubPoints("institutional", 8000)

\* The points a scorer has summed before its cap (and before the profile
\* multiplier of the ethics scorer).
RawPoints(category, data) ==
    CASE category = "valuation" -> PointSum(ValuationParts(data))
      [] category = "financial" -> PointSum(FinancialParts(data))
      [] category = "profitability" -> PointSum(ProfitabilityParts(data))
      [] category = "growth" -> PointSum(GrowthParts(data))
      [] category = "management" -> PointSum(ManagementParts(data))
      [] category = "ethics" -> EthicsBase + PointSum(EthicsParts(data))

CategorySet == {Categories[i] : i \in DOMAIN Categories}

\* C10 as stated: for each of the six scorers the largest sum of points
\* reachable before the cap is exactly 100 (here: it never exceeds 100).
C10_RawMaxIs100 ==
    pc = "scored" => \A k \in CategorySet : RawPoints(k, call.data) <= 100

\* C10 amended: the largest sum of points reachable before the cap is exactly
\* 100 for the valuation, financial, profitability, growth and management
\* scorers, and exactly 130 (base 50 + ESG 50 + governance 30) for the ethics
\* scorer.
C10_RawMaxIs100Or130 ==
    pc = "scored"
        => \A k \in CategorySet :
              RawPoints(k, call.data) <= IF k = "ethics" THEN 130 ELSE 100

\* C10 witness: a scored record in the best bucket of every sub-metric: 100
\* points in five scorers and 130 in the ethics scorer.
C10_Witness ==
    /\ pc = "scored"
    /\ \A k \in CategorySet :
          RawPoints(k, call.data) = IF k = "ethics" THEN 130 ELSE 100

\* The valuation scorer has returned for the record of the call.
ValuationScored == pc \in {"financial", "profitability", "growth", "management",
                           "ethics", "overall", "scored"}

Multiples == {"pe", "pb", "ps", "peg"}

\* The points of the valuation sub-metrics other than the multiple m.
OtherValuationPoints(m, d) ==
    (IF m = "pe" THEN 0 ELSE SubPoints("pe", d.pe_ratio))
    + (IF m = "pb" THEN 0 ELSE SubPoints("pb", d.pb_ratio))
    + (IF m = "ps" THEN 0 ELSE SubPoints("ps", d.ps_ratio))
    + (IF m = "peg" THEN 0 ELSE SubPoints("peg", d.peg_ratio))
    + ValuationBucket(d.price, d.intrinsic_value).points

\* C11: in calculate_valuation_score each of pe_ratio, pb_ratio, ps_ratio and
\* peg_ratio that is 0 (the value of a missing multiple) contributes 0 points
\* and writes no detail tag.
C11_ZeroMultipleExcluded ==
    ValuationScored
        => \A m \in Multiples :
              call.data[SubMetricField[m]] = 0
                  => /\ m \notin DOMAIN out.details.valuation
                     /\ out.scores.valuation = Pts(OtherValuationPoints(m, call.data))

\* The tables of the scorers as the specification gives them: the points of a
\* value on a scale of three limits, for a scale read with <= and for a scale
\* read with >=.
AtMost(v, l1, l2, l3, p1, p2, p3, p4) ==
    IF v <= l1 THEN p1 ELSE IF v <= l2 THEN p2 ELSE IF v <= l3 THEN p3 ELSE p4

AtLeast(v, l1, l2, l3, p1, p2, p3, p4) ==
    IF v >= l1 THEN p1 ELSE IF v >= l2 THEN p2 ELSE IF v >= l3 THEN p3 ELSE p4

\* (intrinsic - price) / intrinsic >= 30 %: 30, >= 15 %: 20, >= 0: 10, < 0: 5,
\* compared without the division
DiscountTable(price, intrinsic) ==
    LET gain == (intrinsic - price) * 100
    IN  IF gain >= 30 * intrinsic THEN 30
        ELSE IF gain >= 15 * intrinsic THEN 20
        ELSE IF gain >= 0 THEN 10
        ELSE 5

ValuationTable(d) ==
    AtMost(d.pe_ratio, 1500, 2000, 2500, 20, 15, 10, 5)
    + AtMost(d.pb_ratio, 150, 300, 500, 15, 12, 8, 4)
    + AtMost(d.ps_ratio, 100, 200, 300, 15, 12, 8, 4)
    + DiscountTable(d.price, d.intrinsic_value)
    + AtMost(d.peg_ratio, 100, 150, 200, 20, 15, 10, 5)

AllPositive(d, fields) == \A f \in fields : d[f] > 0

\* C12: for every record with positive pe_ratio, pb_ratio, ps_ratio,
\* peg_ratio, price and intrinsic_value, calculate_valuation_score returns the
\* sum of the five table contributions, capped at 100; for pe = 12, pb = 1.0,
\* ps = 0.8, price = 100, intrinsic = 140, peg = 0.9 the score is 90.
C12_ValuationTableSum ==
    (/\ ValuationScored
     /\ AllPositive(call.data, {"pe_ratio", "pb_ratio", "ps_ratio", "peg_ratio",
                                "price", "intrinsic_value"}))
        => /\ out.scores.valuation = Min2(Pts(ValuationTable(call.data)), Pts(100))
           /\ (/\ call.data.pe_ratio = 1200 /\ call.data.pb_ratio = 100
               /\ call.data.ps_ratio = 80 /\ call.data.price = 10000
               /\ call.data.intrinsic_value = 14000 /\ call.data.peg_ratio = 90)
                  => out.scores.valuation = Pts(90)

\* C12 witness: the record of the example has been scored 90, its discount of
\* 28.57 % falling in the 20-point bucket.
C12_Witness ==
    /\ ValuationScored
    /\ call.data.pe_ratio = 1200 /\ call.data.pb_ratio = 100 /\ call.data.ps_ratio = 80
    /\ call.data.price = 10000 /\ call.data.intrinsic_value = 14000
    /\ call.data.peg_ratio = 90
    /\ DiscountTable(call.data.price, call.data.intrinsic_value) = 20
    /\ out.scores.valuation = Pts(90)

FinancialScored == pc \in {"profitability", "growth", "management", "ethics", "overall", "scored"}

FinancialTable(d) ==
    AtLeast(d.current_ratio, 200, 150, 100, 25, 20, 15, 5)
    + AtLeast(d.quick_ratio, 150, 100, 50, 20, 15, 10, 5)
    + AtMost(d.debt_to_equity, 50, 100, 200, 30, 25, 15, 5)
    + AtLeast(d.interest_coverage, 1000, 500, 200, 25, 20, 10, 5)

\* C13: for every record calculate_financial_score returns the sum of the four
\* table contributions, capped at 100; for current_ratio = 2.5, quick_ratio =
\* 1.8, debt_to_equity = 0.3, interest_coverage = 12 the score is 100.
C13_FinancialTableSum ==
    FinancialScored
        => /\ out.scores.financial = Min2(Pts(FinancialTable(call.data)), Pts(100))
           /\ (/\ call.data.current_ratio = 250 /\ call.data.quick_ratio = 180
               /\ call.data.debt_to_equity = 30 /\ call.data.interest_coverage = 1200)
                  => out.scores.financial = Pts(100)

\* C13 witness: a record with debt/equity exactly at the limit 0.5 and the
\* other three metrics of the example has been scored 100.
C13_Witness ==
    /\ FinancialScored
    /\ call.data.current_ratio = 250 /\ call.data.quick_ratio = 180
    /\ call.data.debt_to_equity = 50 /\ call.data.interest_coverage = 1200
    /\ out.scores.financial = Pts(100)

EthicsScored == pc \in {"overall", "scored"}

\* (50 + ESG points + governance points) * m, in hundredths
EthicsTable(d, profile) ==
    LET points == 50 + AtLeast(d.esg_score, 7000, 5000, 3000, 50, 35, 20, 10)
                     + AtLeast(d.governance_score, 7000, 5000, 5000, 30, 20, 20, 10)
        m      == CASE profile = "conservative" -> 90
                    [] profile = "flexible" -> 110
                    [] profile = "moderate" -> 100
    IN  points * m

\* C14: for every esg_score, governance_score and profile,
\* calculate_ethics_score returns min(100, (50 + ESG points + governance
\* points) * m); for conservative with esg = 75 and governance = 75 it is 100.
C14_EthicsFormula ==
    EthicsScored
        => /\ out.scores.ethics = Min2(EthicsTable(call.data, call.profile), Pts(100))
           /\ (/\ call.profile = "conservative"
               /\ call.data.esg_score = 7500 /\ call.data.governance_score = 7500)
                  => out.scores.ethics = Pts(100)

\* C14 witness: the conservative example has been scored 100, from 117 before
\* the cap.
C14_Witness ==
    /\ EthicsScored
    /\ call.profile = "conservative"
    /\ call.data.esg_score = 7500 /\ call.data.governance_score = 7500
    /\ EthicsTable(call.data, call.profile) = 11700
    /\ out.scores.ethics = Pts(100)

SpecWeights ==
    [valuation |-> 25, financial |-> 20, profitability |-> 20,
     growth |-> 15, management |-> 10, ethics |-> 10]

\* the exact weighted sum of the scores, in ten-thousandths
WeightedSum(scores) ==
    scores.valuation * SpecWeights.valuation + scores.financial * SpecWeights.financial
    + scores.profitability * SpecWeights.profitability + scores.growth * SpecWeights.growth
    + scores.management * SpecWeights.management + scores.ethics * SpecWeights.ethics

ScoreValues(scores) == {scores[k] : k \in DOMAIN scores}

\* C15: calculate_overall_score returns the weighted sum of the six category
\* scores with weights 0.25, 0.20, 0.20, 0.15, 0.10, 0.10 (which sum to 1.0),
\* rounded to one decimal place; hence six equal scores s give overall s, and
\* the overall score lies between the smallest and the largest category score.
C15_WeightedSumRounded ==
    pc = "scored"
        => /\ SpecWeights.valuation + SpecWeights.financial + SpecWeights.profitability
                 + SpecWeights.growth + SpecWeights.management + SpecWeights.ethics = Scale
           /\ out.overall % 10 = 0
           /\ Abs(out.overall * Scale - WeightedSum(out.scores)) <= 500
           /\ \A s \in ScoreValues(out.scores) :
                 ScoreValues(out.scores) = {s} => out.overall = s
           /\ \E lo, hi \in ScoreValues(out.scores) : lo <= out.overall /\ out.overall <= hi

\* C15 witness: six scores that are not all equal, whose weighted sum lies
\* halfway between two tenths, have given an overall score rounded upwards.
C15_Witness ==
    /\ pc = "scored"
    /\ Cardinality(ScoreValues(out.scores)) > 1
    /\ WeightedSum(out.scores) % 1000 = 500
    /\ out.overall * Scale = WeightedSum(out.scores) + 500

Valued(d, fields) == \A f \in fields : ~IsNone(d[f])

\* C16: the intrinsic value per share returned by _calculate_intrinsic_value
\* is strictly greater than 0 for every record, including records with
\* pe_ratio <= 0, market_cap = 0, free cash flow <= 0 or earnings_growth below
\* -100.  Stated here for the records with a positive price and a value in
\* every input, which the claim includes.
C16_IntrinsicPositive ==
    (/\ Returned("_calculate_intrinsic_value")
     /\ Valued(call.data, {"price", "pe_ratio", "market_cap"})
     /\ call.data.price > 0)
        => out > 0

\* The cash-flow statement gives no free cash flow: there is no statement, it
\* is empty, or it has no 'Free Cash Flow' row.
MissingFcf(cash_flow) == Unavailable(cash_flow) \/ "Free Cash Flow" \notin DOMAIN cash_flow.rows

FcfOf(cash_flow) == IF MissingFcf(cash_flow) THEN 0 ELSE cash_flow.rows["Free Cash Flow"]

\* market_cap = 0 with a positive price: zero shares outstanding, the
\* denominator of the per-share value
ZeroShares(d, cash_flow) ==
    /\ FcfOf(cash_flow) > 0
    /\ ~IsNone(d.price) /\ d.price > 0
    /\ d.market_cap = 0

\* an input without a value that the computation reads
NoValueRead(d, cash_flow) ==
    IF FcfOf(cash_flow) <= 0
    THEN IsNone(d.pe_ratio) \/ (d.pe_ratio > 0 /\ IsNone(d.price))
    ELSE IsNone(d.price) \/ (d.price > 0 /\ IsNone(d.market_cap))

\* C17 as stated: whenever the computation meets an arithmetic failure (free
\* cash flow data missing, zero shares outstanding, an input without a value)
\* _calculate_intrinsic_value returns exactly the record's price.  An input
\* without a value is the only failure when the price itself has none.
C17_FailSoftReturnsPrice ==
    (/\ Returned("_calculate_intrinsic_value")
     /\ \/ MissingFcf(call.cash_flow) /\ Valued(call.data, {"price", "pe_ratio", "market_cap"})
        \/ ZeroShares(call.data, call.cash_flow)
        \/ NoValueRead(call.data, call.cash_flow))
        => out = call.data.price

\* C17 amended: _calculate_intrinsic_value never raises; it returns exactly the
\* record's price when shares outstanding are zero or an input it reads has no
\* value.  Missing free-cash-flow data is no failure: it counts as a free cash
\* flow of 0, and the result is that of the same record with free cash flow 0
\* (the earnings-multiple branch).
C17_FailSoftExceptMissingFcf ==
    Returned("_calculate_intrinsic_value")
        => /\ (ZeroShares(call.data, call.cash_flow) \/ NoValueRead(call.data, call.cash_flow))
                 => out = call.data.price
           /\ MissingFcf(call.cash_flow)
                 => out = _calculate_intrinsic_value(call.data,
                                                     Statement([l \in {"Free Cash Flow"} |-> 0]))

\* C17 witness: a record with positive free cash flow, a positive price and
\* market_cap = 0 got its price back.
C17_Witness ==
    /\ Returned("_calculate_intrinsic_value")
    /\ ZeroShares(call.data, call.cash_flow)
    /\ call.data.price = 5000
    /\ out = 5000

FilterReturned == Returned("passes_filters") /\ out.exc = "none"

\* The checks other than the dividend requirement pass.
PassesWithoutDividend(d, c) == Passes(d, [c EXCEPT !.dividend_req = "any"])

\* C18: with dividend_req = 'any' no dividend field affects the outcome; with
\* 'paying' the record is rejected exactly when dividend_yield <
\* min_div_yield; with 'growing' exactly when dividend_yield < min_div_yield
\* or five_year_avg_dividend_yield is 0 (the other checks passing).
C18_DividendRequirement ==
    FilterReturned
        => /\ call.criteria.dividend_req = "any"
                 => \A y \in FilterSamples.dividend_yield,
                       f \in FilterSamples.five_year_avg_dividend_yield :
                       passes_filters([call.data EXCEPT !.dividend_yield = y,
                                                        !.five_year_avg_dividend_yield = f],
                                      call.criteria) = out
           /\ (call.criteria.dividend_req = "paying"
               /\ PassesWithoutDividend(call.data, call.criteria))
                 => (~out.value <=> call.data.dividend_yield < call.criteria.min_div_yield)
           /\ (call.criteria.dividend_req = "growing"
               /\ PassesWithoutDividend(call.data, call.criteria))
                 => (~out.value <=> \/ call.data.dividend_yield < call.criteria.min_div_yield
                                    \/ call.data.five_year_avg_dividend_yield = 0)

\* C18 witness: under 'growing' a record with a sufficient yield and a
\* five-year average of 0, passing every other check, was rejected.
C18_Witness ==
    /\ FilterReturned
    /\ call.criteria.dividend_req = "growing"
    /\ PassesWithoutDividend(call.data, call.criteria)
    /\ call.data.dividend_yield >= call.criteria.min_div_yield
    /\ call.criteria.min_div_yield > 0
    /\ call.data.five_year_avg_dividend_yield = 0
    /\ ~out.value

\* The checks other than the discount check pass: the record passes when no
\* discount is asked for.
PassesWithoutDiscount(d, c) == Passes(d, [c EXCEPT !.min_discount = -1000000])

DiscountApplies(d) ==
    /\ Valued(d, {"price", "intrinsic_value"})
    /\ d.price > 0
    /\ d.intrinsic_value > 0

\* (intrinsic_value - price) / intrinsic_value * 100 < min_discount, compared
\* without the division (intrinsic_value > 0)
DiscountBelow(d, min_discount) ==
    (d.intrinsic_value - d.price) * 100 * Scale < min_discount * d.intrinsic_value

\* C19: the discount check is applied only when price > 0 and
\* intrinsic_value > 0; when applied it rejects the record exactly when
\* (intrinsic_value - price) / intrinsic_value * 100 < min_discount, and when
\* price <= 0 or intrinsic_value <= 0 min_discount has no effect.
C19_DiscountCheck ==
    FilterReturned
        => /\ (DiscountApplies(call.data) /\ PassesWithoutDiscount(call.data, call.criteria))
                 => (~out.value <=> DiscountBelow(call.data, call.criteria.min_discount))
           /\ (Valued(call.data, {"price", "intrinsic_value"}) /\ ~DiscountApplies(call.data))
                 => \A m \in {-1000000, 0, 1500, 5000, 1000000} :
                       passes_filters(call.data, [call.criteria EXCEPT !.min_discount = m]) = out

\* C19 witness: a record with a discount of exactly 15 % passed under a
\* minimum of 15 %.
C19_Witness ==
    /\ FilterReturned
    /\ DiscountApplies(call.data)
    /\ call.criteria.min_discount = 1500
    /\ (call.data.intrinsic_value - call.data.price) * 100 * Scale
           = call.criteria.min_discount * call.data.intrinsic_value
    /\ out.value

\* C20: a screening run given an empty criteria configuration, or one that
\* lacks a required field, fails before any per-symbol work starts: when the
\* error for the missing field is raised, no symbol's data has been fetched.
C20_FailsBeforeAnySymbol ==
    ((\E k \in DOMAIN DefaultCriteria : k \notin DOMAIN criteria) /\ raised = "KeyError")
        => out = NoRecord

\* C21: the ranked list held in the session is discarded on the next run:
\* after a screening run finishes, the session's results contain no entry
\* computed by an earlier run, also when the new run finds no symbol that
\* passes.  Stated for that last case: after a completed run that stored no
\* symbol, the session holds no results.
C21_EarlierResultsDiscarded ==
    (RunCompleted /\ StoredSymbols = {}) => session_results.none

\* every result computed in the session: the running list and the stored one
ScoredEntries ==
    {results[i] : i \in DOMAIN results}
        \cup {session_results.list[i] : i \in DOMAIN session_results.list}

FetchedRecords ==
    {get_stock_data(resp).data : resp \in {r \in ProviderResponses : ~get_stock_data(r).none}}

SessionResultsShape ==
    \/ session_results = NoResults
    \/ /\ ~session_results.none
       /\ session_results.list # <<>>
       /\ SortedDescending(session_results.list)

\* a step of a run whose result list is empty leaves the session's results alone
EmptyRunKeepsResults == (results = <<>>) => (session_results' = session_results)

\* C25: the session's results are always either None or a non-empty list
\* sorted by overall score in descending order, never an empty list; and a
\* run in which no symbol passes leaves them exactly as they were.
C25_NoneOrNonEmptySorted == [](SessionResultsShape) /\ [][EmptyRunKeepsResults]_vars

\* C25 witness: a run in which no symbol passed has completed and the session
\* still holds the list of two or more results an earlier run stored.
C25_Witness ==
    /\ RunCompleted
    /\ StoredSymbols = {}
    /\ ~session_results.none
    /\ Len(session_results.list) >= 2

\* The criteria keys that hold an upper limit, and those that hold a lower one.
MaxKeys == {"max_pe", "max_pb", "max_debt_equity"}

MinKeys == {MinKey[f] : f \in DOMAIN MinKey} \cup {"min_discount", "min_div_yield"}

\* growing asks for more than paying, paying for more than any
DividendRank(req) == IF req = "any" THEN 0 ELSE IF req = "paying" THEN 1 ELSE 2

\* c2 is at least as permissive as c1 in every field
NoStricter(c2, c1) ==
    /\ \A k \in MaxKeys : c2[k] >= c1[k]
    /\ \A k \in MinKeys : c2[k] <= c1[k]
    /\ DividendRank(c2.dividend_req) <= DividendRank(c1.dividend_req)

\* The criteria c is compared with: the sidebar's settings, and c with one
\* slider moved or another dividend requirement chosen.
ComparedCriteria(c) ==
    SidebarCriteria
        \cup UNION {{[c EXCEPT ![k] = v] :
                        v \in {DefaultCriteria[k], LenientCriteria[k], StrictCriteria[k], 100}} :
                    k \in MaxKeys \cup MinKeys}
        \cup {[c EXCEPT !.dividend_req = r] : r \in {"any", "paying", "growing"}}

\* C26: passes_filters is monotone in the criteria: a record that passes
\* still passes under any criteria that are no stricter in any field (each
\* max_* at least as large, each min_* at most as large, dividend_req weakened
\* along growing -> paying -> any).
C26_MonotoneInCriteria ==
    (FilterReturned /\ out.value)
        => \A c2 \in ComparedCriteria(call.criteria) :
              NoStricter(c2, call.criteria) => Passes(call.data, c2)

\* C26 witness: a record passed under dividend_req = 'growing' with a minimum
\* yield of 1 %, and the compared criteria hold both more permissive settings
\* and stricter ones under which the record fails.
C26_Witness ==
    /\ FilterReturned
    /\ out.value
    /\ call.criteria.dividend_req = "growing"
    /\ call.criteria.min_div_yield = 100
    /\ \E c2 \in ComparedCriteria(call.criteria) :
          /\ NoStricter(c2, call.criteria)
          /\ c2.dividend_req = "any"
          /\ c2.max_pe > call.criteria.max_pe
    /\ \E c2 \in ComparedCriteria(call.criteria) :
          /\ NoStricter(call.criteria, c2)
          /\ ~Passes(call.data, c2)

\* The call of _calculate_intrinsic_value is for a record with no positive
\* free cash flow and no positive earnings multiple.
NoCashNoEarnings ==
    /\ Returned("_calculate_intrinsic_value")
    /\ ~IsNone(call.data.pe_ratio)
    /\ call.data.pe_ratio <= 0
    /\ _get_free_cash_flow(call.cash_flow) <= 0

\* lines 198-199: the record with the free cash flow and the value returned
ValuedRecord ==
    [call.data EXCEPT !.free_cash_flow = _get_free_cash_flow(call.cash_flow),
                      !.intrinsic_value = out]

\* C27: a record with free cash flow <= 0 and pe_ratio <= 0 gets the
\* intrinsic value 0 from the earnings fallback; for such a record the
\* min_discount check of passes_filters is never applied (whatever the
\* minimum, the outcome is the same), and calculate_valuation_score adds no
\* discount points and writes no 'valuation' detail tag.
C27_NoValueNoDiscount ==
    NoCashNoEarnings
        => /\ out = 0
           /\ \A c \in SidebarCriteria, m \in {-1000000, 0, 1500, 5000, 1000000} :
                 passes_filters(ValuedRecord, [c EXCEPT !.min_discount = m])
                     = passes_filters(ValuedRecord, c)
           /\ LET v == calculate_valuation_score(ValuedRecord)
                   d == ValuedRecord
               IN  v.exc = "none"
                     => /\ "valuation" \notin DOMAIN v.details
                        /\ v.score = Pts(SubPoints("pe", d.pe_ratio) + SubPoints("pb", d.pb_ratio)
                                         + SubPoints("ps", d.ps_ratio)
                                         + SubPoints("peg", d.peg_ratio))

\* C27 witness: for a record with a negative P/E, a negative free cash flow
\* and a positive price the fallback returned 0; the record passes the
\* default criteria, whose minimum discount is 15 %, and the valuation scorer
\* accepts it.
C27_Witness ==
    /\ NoCashNoEarnings
    /\ call.data.pe_ratio < 0
    /\ _get_free_cash_flow(call.cash_flow) < 0
    /\ ~IsNone(call.data.price) /\ call.data.price > 0
    /\ out = 0
    /\ DefaultCriteria.min_discount = 1500
    /\ Passes(ValuedRecord, DefaultCriteria)
    /\ calculate_valuation_score(ValuedRecord).exc = "none"

\* |EBIT / interest_expense| when both lines are present and the interest
\* expense is not 0, and 0 in every other case
CoverageAsSpecified(income_stmt) ==
    IF /\ ~Unavailable(income_stmt)
       /\ {"EBIT", "Interest Expense"} \subseteq DOMAIN income_stmt.rows
       /\ income_stmt.rows["Interest Expense"] # 0
    THEN Abs(Div(income_stmt.rows["EBIT"], income_stmt.rows["Interest Expense"]))
    ELSE 0

\* C23: _calculate_interest_coverage returns abs(EBIT / interest_expense) when
\* both line items are present and interest_expense != 0, and 0 in every other
\* case: statement missing or empty, EBIT line missing, Interest Expense line
\* missing, or interest_expense = 0.
C23_CoverageOrZero ==
    Returned("_calculate_interest_coverage") => out = CoverageAsSpecified(call.income_stmt)

InvestedCapital(balance_sheet) ==
    Row(balance_sheet, "Total Assets", Scale) - Row(balance_sheet, "Current Liabilities", 0)

\* C24: _calculate_roic returns ROE * 0.8 whenever the statements are
\* unavailable and also whenever invested capital is <= 0; only with invested
\* capital > 0 does it return net income / invested capital * 100.
C24_RoicFallback ==
    Returned("_calculate_roic")
        => out = IF \/ Unavailable(call.income_stmt) \/ Unavailable(call.balance_sheet)
                    \/ InvestedCapital(call.balance_sheet) <= 0
                 THEN Mul(call.data.roe, 80)
                 ELSE Div(Row(call.income_stmt, "Net Income", 0),
                          InvestedCapital(call.balance_sheet)) * 100

====
